---- MODULE Spec2Model ----
(***************************************************************************)
(* QR code scanner page (src/app/page.tsx): the Home component's React     *)
(* state, its refs, the camera streams handed out by getUserMedia, the     *)
(* in-flight captures and uploads, and the handlers that act on them.      *)
(*                                                                         *)
(* Strings the code inspects character by character (the decoded payload,  *)
(* a file's declared type) are tuples of one-character strings.  Strings   *)
(* the code only stores and shows (messages, data URLs) are TLA+ strings.  *)
(***************************************************************************)
EXTENDS Integers, Sequences, FiniteSets, TLC

\* ------------------------------------------------------------------ bounds
\* camera streams requested or live at once
MaxRequests == 2
\* captures, and uploads, under way at once (the UI keeps it below this)
MaxInFlight == 2

\* -------------------------------------------------------------- JS values
\* A JavaScript value as JSON.parse can produce it, in one record shape so
\* that any two values compare: t is the type tag, n the number (or 0/1 for
\* a boolean), s the characters of a string, keys/kids the members of an
\* object (kids alone: the elements of an array).
JsVal(t, n, s, keys, kids) == [t |-> t, n |-> n, s |-> s, keys |-> keys, kids |-> kids]
JsNull == JsVal("null", 0, <<>>, <<>>, <<>>)
JsBool(b) == JsVal("boolean", IF b THEN 1 ELSE 0, <<>>, <<>>, <<>>)
JsNum(n) == JsVal("number", n, <<>>, <<>>, <<>>)
JsStr(s) == JsVal("string", 0, s, <<>>, <<>>)
JsArr(kids) == JsVal("array", 0, <<>>, <<>>, kids)
JsObj(keys, kids) == JsVal("object", 0, <<>>, keys, kids)

\* JavaScript truthiness: null, false, 0 and "" are falsy
Truthy(v) ==
    CASE v.t = "null" -> FALSE
      [] v.t = "boolean" -> v.n = 1
      [] v.t = "number" -> v.n # 0
      [] v.t = "string" -> v.s # <<>>
      [] OTHER -> TRUE

\* the null of the string-valued state (activeMode, error, previewImage)
Null == "null"

\* outcome of a call that may throw
Return(v) == [kind |-> "return", value |-> v]
Throw == [kind |-> "throw", value |-> JsNull]

\* ------------------------------------------------------ String.startsWith
StartsWith(s, prefix) ==
    /\ Len(prefix) <= Len(s)
    /\ SubSeq(s, 1, Len(prefix)) = prefix

\* ----------------------------------------------------- decodeURIComponent
\* printable ASCII, 0x20 .. 0x7E (0x60 is spelled out: the lexer of TLA+
\* has no string for it)
Ascii ==
    <<" ", "!", "\"", "#", "$", "%", "&", "'", "(", ")", "*", "+", ",", "-", ".", "/",
      "0", "1", "2", "3", "4", "5", "6", "7", "8", "9", ":", ";", "<", "=", ">", "?",
      "@", "A", "B", "C", "D", "E", "F", "G", "H", "I", "J", "K", "L", "M", "N", "O",
      "P", "Q", "R", "S", "T", "U", "V", "W", "X", "Y", "Z", "[", "\\", "]", "^", "_",
      "<grave>", "a", "b", "c", "d", "e", "f", "g", "h", "i", "j", "k", "l", "m", "n", "o",
      "p", "q", "r", "s", "t", "u", "v", "w", "x", "y", "z", "{", "|", "}", "~">>

HexDigits ==
    <<"0", "1", "2", "3", "4", "5", "6", "7", "8", "9", "A", "B", "C", "D", "E", "F">>
HexLower == <<"a", "b", "c", "d", "e", "f">>

\* value of a hex digit, -1 if c is none
HexVal(c) ==
    IF \E k \in 1..16 : HexDigits[k] = c
    THEN (CHOOSE k \in 1..16 : HexDigits[k] = c) - 1
    ELSE IF \E k \in 1..6 : HexLower[k] = c
         THEN (CHOOSE k \in 1..6 : HexLower[k] = c) + 9
         ELSE -1

\* the byte of the escape %XX at s[i..i+2], -1 if there is no well-formed one
EscapeAt(s, i) ==
    IF i + 2 <= Len(s) /\ s[i] = "%" /\ HexVal(s[i+1]) >= 0 /\ HexVal(s[i+2]) >= 0
    THEN 16 * HexVal(s[i+1]) + HexVal(s[i+2])
    ELSE -1

\* continuation bytes a UTF-8 lead byte announces, -1 for a byte that
\* cannot lead
Trail(b) ==
    CASE b < 128 -> 0
      [] b >= 194 /\ b <= 223 -> 1
      [] b >= 224 /\ b <= 239 -> 2
      [] b >= 240 /\ b <= 244 -> 3
      [] OTHER -> -1

\* the character of a decoded ASCII byte; control characters and characters
\* beyond ASCII are kept apart from every printable one
CharOf(b) ==
    IF b >= 32 /\ b <= 126 THEN Ascii[b - 31]
    ELSE IF b < 128 THEN "<control>" ELSE "<non-ascii>"

\* the k escapes starting at s[i] are all continuation bytes %80..%BF
RECURSIVE Continuations(_, _, _)
Continuations(s, i, k) ==
    IF k = 0 THEN TRUE
    ELSE /\ EscapeAt(s, i) >= 128
         /\ EscapeAt(s, i) <= 191
         /\ Continuations(s, i + 3, k - 1)

\* s[i] is one of the two hex digits of an escape
Inside(s, i) == (i > 1 /\ s[i-1] = "%") \/ (i > 2 /\ s[i-2] = "%")

\* the continuation byte escaped at s[i] belongs to a lead byte before it
Covered(s, i) ==
    \E d \in 1..3 :
        /\ i - 3 * d >= 1
        /\ EscapeAt(s, i - 3 * d) >= 0
        /\ Trail(EscapeAt(s, i - 3 * d)) >= d

\* s[i] is a % that makes decodeURIComponent throw URIError: no two hex
\* digits follow it, or the bytes are not valid UTF-8
Malformed(s, i) ==
    /\ s[i] = "%"
    /\ LET b == EscapeAt(s, i)
       IN  \/ b < 0
           \/ b >= 128 /\ b <= 191 /\ ~Covered(s, i)
           \/ b >= 192 /\ (Trail(b) < 1 \/ ~Continuations(s, i + 3, Trail(b)))

\* the characters position i contributes to the decoded string
Emit(s, i) ==
    IF s[i] # "%" THEN (IF Inside(s, i) THEN <<>> ELSE <<s[i]>>)
    ELSE LET b == EscapeAt(s, i)
         IN  IF b >= 128 /\ b <= 191 THEN <<>> ELSE <<CharOf(b)>>

\* the decoded characters of s[lo..hi], by halves
RECURSIVE DecodeRange(_, _, _)
DecodeRange(s, lo, hi) ==
    IF lo > hi THEN <<>>
    ELSE IF lo = hi THEN Emit(s, lo)
    ELSE LET mid == (lo + hi) \div 2
         IN  DecodeRange(s, lo, mid) \o DecodeRange(s, mid + 1, hi)

decodeURIComponent(s) ==
    IF \E i \in 1..Len(s) : Malformed(s, i) THEN Throw
    ELSE Return(JsStr(DecodeRange(s, 1, Len(s))))

\* ------------------------------------------------------------- JSON.parse
\* Recursive descent over the JSON grammar: null, true, false, integers,
\* strings without escapes, arrays and objects, blanks between tokens.
Digits == <<"0", "1", "2", "3", "4", "5", "6", "7", "8", "9">>
IsDigit(c) == \E k \in 1..10 : Digits[k] = c
DigitVal(c) == (CHOOSE k \in 1..10 : Digits[k] = c) - 1

Parsed(v, next) == [ok |-> TRUE, val |-> v, next |-> next]
NoParse == [ok |-> FALSE, val |-> JsNull, next |-> 0]

At(s, i) == IF i >= 1 /\ i <= Len(s) THEN s[i] ELSE "<end>"

RECURSIVE SkipWs(_, _)
SkipWs(s, i) == IF At(s, i) = " " THEN SkipWs(s, i + 1) ELSE i

Matches(s, i, lit) ==
    /\ i + Len(lit) - 1 <= Len(s)
    /\ SubSeq(s, i, i + Len(lit) - 1) = lit

\* digits from i on: the position after them and their value
RECURSIVE ScanDigits(_, _, _)
ScanDigits(s, i, acc) ==
    IF IsDigit(At(s, i)) THEN ScanDigits(s, i + 1, 10 * acc + DigitVal(s[i]))
    ELSE [next |-> i, n |-> acc]

JsonNumber(s, i) ==
    LET neg == At(s, i) = "-"
        j == IF neg THEN i + 1 ELSE i
        d == IF At(s, j) = "0" THEN [next |-> j + 1, n |-> 0] ELSE ScanDigits(s, j, 0)
    IN  IF ~IsDigit(At(s, j)) \/ At(s, d.next) \in {".", "e", "E"} THEN NoParse
        ELSE Parsed(JsNum(IF neg THEN 0 - d.n ELSE d.n), d.next)

\* the position of the quote that closes a string opened before i, 0 if a
\* character a JSON string cannot hold comes first
RECURSIVE ClosingQuote(_, _)
ClosingQuote(s, i) ==
    LET c == At(s, i)
    IN  IF c = "\"" THEN i
        ELSE IF c \in {"<end>", "\\", "<control>"} THEN 0
        ELSE ClosingQuote(s, i + 1)

JsonString(s, i) ==
    IF At(s, i) # "\"" THEN NoParse
    ELSE LET q == ClosingQuote(s, i + 1)
         IN  IF q = 0 THEN NoParse
             ELSE Parsed(JsStr(SubSeq(s, i + 1, q - 1)), q + 1)

RECURSIVE JsonValue(_, _)
RECURSIVE JsonElements(_, _, _)
RECURSIVE JsonMembers(_, _, _, _)

\* elements of an array after its first: s[i] is "," or "]"
JsonElements(s, i, kids) ==
    LET j == SkipWs(s, i)
    IN  IF At(s, j) = "]" THEN Parsed(JsArr(kids), j + 1)
        ELSE IF At(s, j) # "," THEN NoParse
        ELSE LET v == JsonValue(s, j + 1)
             IN  IF ~v.ok THEN NoParse
                 ELSE JsonElements(s, v.next, Append(kids, v.val))

\* one member of an object starting at s[i], then the rest
JsonMembers(s, i, keys, kids) ==
    LET k == JsonString(s, SkipWs(s, i))
        c == IF k.ok THEN SkipWs(s, k.next) ELSE 0
        v == IF k.ok /\ At(s, c) = ":" THEN JsonValue(s, c + 1) ELSE NoParse
        e == IF v.ok THEN SkipWs(s, v.next) ELSE 0
    IN  IF ~v.ok THEN NoParse
        ELSE IF At(s, e) = "}"
        THEN Parsed(JsObj(Append(keys, k.val.s), Append(kids, v.val)), e + 1)
        ELSE IF At(s, e) = ","
        THEN JsonMembers(s, e + 1, Append(keys, k.val.s), Append(kids, v.val))
        ELSE NoParse

JsonValue(s, i) ==
    LET j == SkipWs(s, i)
        c == At(s, j)
    IN  CASE Matches(s, j, <<"n", "u", "l", "l">>) -> Parsed(JsNull, j + 4)
          [] Matches(s, j, <<"t", "r", "u", "e">>) -> Parsed(JsBool(TRUE), j + 4)
          [] Matches(s, j, <<"f", "a", "l", "s", "e">>) -> Parsed(JsBool(FALSE), j + 5)
          [] c = "\"" -> JsonString(s, j)
          [] c = "-" \/ IsDigit(c) -> JsonNumber(s, j)
          [] c = "[" ->
                IF At(s, SkipWs(s, j + 1)) = "]"
                THEN Parsed(JsArr(<<>>), SkipWs(s, j + 1) + 1)
                ELSE LET v == JsonValue(s, j + 1)
                     IN  IF ~v.ok THEN NoParse
                         ELSE JsonElements(s, v.next, <<v.val>>)
          [] c = "{" ->
                IF At(s, SkipWs(s, j + 1)) = "}"
                THEN Parsed(JsObj(<<>>, <<>>), SkipWs(s, j + 1) + 1)
                ELSE JsonMembers(s, j + 1, <<>>, <<>>)
          [] OTHER -> NoParse

\* JSON.parse: one value, then nothing but blanks; anything else throws
JSONparse(s) ==
    LET v == JsonValue(s, 1)
    IN  IF v.ok /\ SkipWs(s, v.next) = Len(s) + 1 THEN Return(v.val) ELSE Throw

\* ---------------------------------------------------------------- inputs
\* Payloads a QR code in front of the camera or in an uploaded image may
\* carry: the empty string, plain text, a malformed escape, JSON of other
\* shapes (numbers, null, true, a string, an array, an object with one
\* field), and a percent-encoded item record.
PayloadEmpty == <<>>
PayloadHello == <<"H", "e", "l", "l", "o">>
PayloadPercent == <<"%">>
PayloadFive == <<"5">>
PayloadZero == <<"0">>
PayloadNull == <<"n", "u", "l", "l">>
PayloadTrue == <<"t", "r", "u", "e">>
PayloadString == <<"%", "2", "2", "x", "%", "2", "2">>
PayloadArray == <<"%", "5", "B", "%", "5", "D">>
PayloadPartial ==
    <<"%", "7", "B", "%", "2", "2", "i", "t", "e", "m", "I", "d", "%", "2", "2",
      "%", "3", "A", "1", "%", "7", "D">>
PayloadItem ==
    <<"%", "7", "B", "%", "2", "2", "i", "t", "e", "m", "I", "d", "%", "2", "2",
      "%", "3", "A", "1", "%", "2", "C", "%", "2", "2", "i", "t", "e", "m", "C",
      "o", "d", "e", "%", "2", "2", "%", "3", "A", "%", "2", "2", "A", "1", "%",
      "2", "2", "%", "2", "C", "%", "2", "2", "i", "t", "e", "m", "C", "o", "d",
      "e", "F", "o", "r", "m", "a", "t", "%", "2", "2", "%", "3", "A", "%", "2",
      "2", "F", "%", "2", "2", "%", "2", "C", "%", "2", "2", "r", "e", "c", "e",
      "i", "v", "e", "d", "Q", "u", "a", "n", "t", "i", "t", "y", "%", "2", "2",
      "%", "3", "A", "2", "%", "2", "C", "%", "2", "2", "l", "o", "c", "a", "t",
      "i", "o", "n", "%", "2", "2", "%", "3", "A", "%", "2", "2", "L", "%", "2",
      "2", "%", "2", "C", "%", "2", "2", "p", "e", "r", "i", "o", "d", "%", "2",
      "2", "%", "3", "A", "%", "2", "2", "P", "%", "2", "2", "%", "2", "C", "%",
      "2", "2", "u", "o", "m", "%", "2", "2", "%", "3", "A", "%", "2", "2", "U",
      "%", "2", "2", "%", "2", "C", "%", "2", "2", "p", "l", "a", "c", "e", "m",
      "e", "n", "t", "%", "2", "2", "%", "3", "A", "%", "2", "2", "R", "%", "2",
      "2", "%", "7", "D">>
Payloads ==
    {PayloadEmpty, PayloadHello, PayloadPercent, PayloadFive, PayloadZero,
     PayloadNull, PayloadTrue, PayloadString, PayloadArray, PayloadPartial,
     PayloadItem}

\* What is in a picture: no code (null) or one code with its payload
Pictures == {JsNull} \cup {JsStr(s) : s \in Payloads}

\* What one decoder may make of a picture: it throws, detects nothing, or
\* reads the code that is there
Detections(picture) == {Throw, Return(JsNull), Return(picture)}

\* A frame drawn from a video that shows nothing yet has no pixels
\* (0 x 0 canvas): the platform detector rejects it and getImageData throws
Frames == {"empty", "picture"}

\* Files the user may pick; accept="image/*" on the input is only a hint
Files ==
    { [name |-> "photo.png", type |-> <<"i", "m", "a", "g", "e", "/", "p", "n", "g">>],
      [name |-> "scan.jpg", type |-> <<"i", "m", "a", "g", "e", "/", "j", "p", "e", "g">>],
      [name |-> "notes.txt", type |-> <<"t", "e", "x", "t", "/", "p", "l", "a", "i", "n">>],
      [name |-> "image", type |-> <<"i", "m", "a", "g", "e">>],
      [name |-> "blob", type |-> <<>>] }

\* the data URL readAsDataURL yields for a file, named after the file
DataURL(file) == file.name

\* messages
CameraMsg == "Could not access camera. Please check permissions."
NoCodeMsg == "No QR code detected. Try adjusting the position."
ProcessMsg == "Failed to process image."
InvalidFileMsg == "Please upload a valid image file."
NoCodeUploadMsg == "No QR code detected in the uploaded image."
ProcessUploadMsg == "Failed to process uploaded image."
Messages ==
    {CameraMsg, NoCodeMsg, ProcessMsg, InvalidFileMsg, NoCodeUploadMsg, ProcessUploadMsg}

\* ------------------------------------------------------------ detectQRCode
\* For a canvas: hasDetector says 'BarcodeDetector' in window, native is
\* what detector.detect does, ctx whether getContext('2d') gives a context,
\* bundled what getImageData and jsQR do.
\* detectQRCode reporting no code when the native detector throws
detectQRCode_NoFallback(hasDetector, native, ctx, bundled) ==
    IF hasDetector
    THEN IF native.kind = "return" THEN Return(native.value) ELSE Return(JsNull)
    ELSE IF ~ctx THEN Return(JsNull)
    ELSE IF bundled.kind = "throw" THEN Throw
    ELSE Return(bundled.value)

detectQRCode(hasDetector, native, ctx, bundled) ==
    IF hasDetector /\ native.kind = "return" THEN Return(native.value)
    ELSE IF ~ctx THEN Return(JsNull)
    ELSE IF bundled.kind = "throw" THEN Throw
    ELSE Return(bundled.value)

\* one call of detectQRCode on a canvas: what went in and what came out
Call(hasDetector, native, ctx, bundled) ==
    [made |-> TRUE, hasDetector |-> hasDetector, native |-> native, bundled |-> bundled,
     result |-> detectQRCode(hasDetector, native, ctx, bundled)]
NoCall ==
    [made |-> FALSE, hasDetector |-> FALSE, native |-> Throw, bundled |-> Throw,
     result |-> Throw]

\* What the two decoders may do with a picture; where there is no
\* BarcodeDetector nothing is asked of it
DetectorRuns(picture) ==
    {<<TRUE, native>> : native \in Detections(picture)} \cup {<<FALSE, Throw>>}

\* the calls that can be made on a canvas holding a picture, and on one
\* holding an empty frame; the callers have a context in hand, so
\* getContext('2d') gives one here too
PictureCalls ==
    UNION {{Call(d[1], d[2], TRUE, bundled) :
                d \in DetectorRuns(p), bundled \in Detections(p)} : p \in Pictures}
EmptyCalls == {Call(h, Throw, TRUE, Throw) : h \in BOOLEAN}
Calls(frame) == IF frame = "empty" THEN EmptyCalls ELSE PictureCalls

\* Interpret keeping the decoded text when it is no JSON
Interpret_KeepsText(value) ==
    LET decodedString == decodeURIComponent(value)
    IN  IF decodedString.kind = "throw" THEN JsNull
        ELSE LET jsonData == JSONparse(decodedString.value.s)
             IN  IF jsonData.kind = "throw" THEN decodedString.value ELSE jsonData.value

\* the payload interpretation of onResultCapture: percent-decode, then
\* parse as JSON; either failure gives null
Interpret(value) ==
    LET decodedString == decodeURIComponent(value)
    IN  IF decodedString.kind = "throw" THEN JsNull
        ELSE LET jsonData == JSONparse(decodedString.value.s)
             IN  IF jsonData.kind = "throw" THEN JsNull ELSE jsonData.value

\* ------------------------------------------------------------------ state
VARIABLES
    mounted,        \* the Home component is mounted
    activeMode,     \* Null (idle), "camera" or "upload"
    decodedData,    \* JsNull or the decoded string
    error,          \* Null or a message
    isProcessing,
    parsedData,     \* JsNull or whatever JSON.parse returned
    previewImage,   \* Null or a data URL
    streamRef,      \* streamRef.current: 0 (null) or a stream
    videoSrc,       \* srcObject of the rendered <video>: 0 if null or no <video>
    stream,         \* per stream: requested and pending, live, or neither
    captures,       \* the frames of the captures whose decode is pending
    uploads,        \* the uploads under way: stage and data URL of each
    detection       \* the detectQRCode call that settled in the step just
                    \* taken (what went in, what came out), NoCall otherwise

vars ==
    <<mounted, activeMode, decodedData, error, isProcessing, parsedData,
      previewImage, streamRef, videoSrc, stream, captures, uploads, detection>>

\* A stream is "pending" from getUserMedia to its grant or denial and
\* "live" from the grant until its tracks are stopped; a denied request and
\* a stopped stream leave nothing behind and their name is used again.
StreamIds == 1..MaxRequests
StreamStates == {"none", "pending", "live"}

\* An upload is "reading" until reader.onload, "loading" until img.onload
\* and "decoding" until detectQRCode settles; an upload that finished, or
\* whose next callback never comes, is no longer under way.
UploadStages == {"reading", "loading", "decoding"}

\* videoRef.current and canvasRef.current: the <video> is rendered in camera
\* mode only, the <canvas> always
videoRef == mounted /\ activeMode = "camera"
canvasRef == mounted

\* a state setter called after unmount changes nothing
SetState(new, old) == IF mounted THEN new ELSE old

TypeOK ==
    /\ mounted \in BOOLEAN
    /\ activeMode \in {Null, "camera", "upload"}
    /\ decodedData \in Pictures
    /\ error \in {Null} \cup Messages
    /\ isProcessing \in BOOLEAN
    /\ previewImage \in {Null} \cup {DataURL(f) : f \in Files}
    /\ streamRef \in {0} \cup StreamIds
    /\ videoSrc \in {0} \cup StreamIds
    /\ stream \in [StreamIds -> StreamStates]
    /\ captures \in Seq(Frames)
    /\ \A i \in 1..Len(uploads) : uploads[i].stage \in UploadStages
    /\ (~videoRef => videoSrc = 0)
    /\ (streamRef # 0 => stream[streamRef] = "live")
    /\ (videoSrc # 0 => stream[videoSrc] = "live")
    /\ detection \in {NoCall} \cup PictureCalls \cup EmptyCalls

Init ==
    /\ mounted = TRUE
    /\ activeMode = Null
    /\ decodedData = JsNull
    /\ error = Null
    /\ isProcessing = FALSE
    /\ parsedData = JsNull
    /\ previewImage = Null
    /\ streamRef = 0
    /\ videoSrc = 0
    /\ stream = [id \in StreamIds |-> "none"]
    /\ captures = <<>>
    /\ uploads = <<>>
    /\ detection = NoCall

\* ---------------------------------------------------------------- helpers
\* resetState without its setError(null)
resetState_KeepsError ==
    /\ error' = error
    /\ decodedData' = JsNull
    /\ previewImage' = Null
    /\ parsedData' = JsNull

\* resetState that leaves the parsed record
resetState_KeepsParsed ==
    /\ error' = Null
    /\ decodedData' = JsNull
    /\ previewImage' = Null
    /\ UNCHANGED parsedData

resetState ==
    /\ error' = Null
    /\ decodedData' = JsNull
    /\ previewImage' = Null
    /\ parsedData' = JsNull

\* Stops the tracks of the stream streamRef holds and drops the reference.
\* The <video>, when there is one, loses its srcObject; when there is none
\* videoSrc is 0 already.
\* stopCamera that stops the tracks and keeps the reference to the stream
stopCamera_KeepsRef ==
    /\ stream' = IF streamRef # 0 THEN [stream EXCEPT ![streamRef] = "none"] ELSE stream
    /\ streamRef' = streamRef
    /\ videoSrc' = 0

stopCamera ==
    /\ stream' = IF streamRef # 0 THEN [stream EXCEPT ![streamRef] = "none"] ELSE stream
    /\ streamRef' = 0
    /\ videoSrc' = 0

\* value is the JS string the decoder returned
onResultCapture(value) ==
    /\ decodedData' = SetState(value, decodedData)
    /\ parsedData' = SetState(Interpret(value.s), parsedData)

\* the name of the stream the next getUserMedia call asks for
NextRequest ==
    CHOOSE id \in StreamIds :
        /\ stream[id] = "none"
        /\ \A other \in StreamIds : stream[other] = "none" => id <= other

Remove(seq, i) == SubSeq(seq, 1, i - 1) \o SubSeq(seq, i + 1, Len(seq))

\* --------------------------------------------------------------- handlers
\* Start Camera button (enabled unless isProcessing): up to the await
startCamera ==
    /\ mounted
    /\ ~isProcessing
    /\ \E id \in StreamIds : stream[id] = "none"
    /\ resetState
    /\ activeMode' = "camera"
    /\ stream' = [stream EXCEPT ![NextRequest] = "pending"]
    /\ videoSrc' = IF activeMode = "camera" THEN videoSrc ELSE 0
    /\ UNCHANGED <<mounted, isProcessing, streamRef, captures, uploads>>
    /\ detection' = NoCall

\* getUserMedia resolves: startCamera after the await
CameraGranted(id) ==
    /\ stream[id] = "pending"
    /\ stream' = [stream EXCEPT ![id] = "live"]
    /\ streamRef' = id
    /\ videoSrc' = IF videoRef THEN id ELSE videoSrc
    /\ UNCHANGED <<mounted, activeMode, decodedData, error, isProcessing,
                   parsedData, previewImage, captures, uploads>>
    /\ detection' = NoCall

\* getUserMedia rejects: the catch of startCamera
CameraDenied(id) ==
    /\ stream[id] = "pending"
    /\ stream' = [stream EXCEPT ![id] = "none"]
    /\ error' = SetState(CameraMsg, error)
    /\ activeMode' = SetState(Null, activeMode)
    /\ videoSrc' = 0
    /\ UNCHANGED <<mounted, decodedData, isProcessing, parsedData, previewImage,
                   streamRef, captures, uploads>>
    /\ detection' = NoCall

\* Scan QR Code button (rendered in camera mode, enabled unless
\* isProcessing): up to the await.  ctx is what getContext('2d') gives; the
\* frame has pixels only if the <video> shows a live stream.
captureFrame ==
    /\ videoRef /\ canvasRef
    /\ ~isProcessing
    /\ Len(captures) < MaxInFlight
    /\ isProcessing' = TRUE
    /\ \E ctx \in BOOLEAN :
          IF ~ctx THEN captures' = captures
          ELSE \E frame \in Frames :
                  /\ frame = "picture" => videoSrc # 0
                  /\ captures' = Append(captures, frame)
    /\ UNCHANGED <<mounted, activeMode, decodedData, error, parsedData,
                   previewImage, streamRef, videoSrc, stream, uploads>>
    /\ detection' = NoCall

\* what the decoders can do with a canvas holding the given frame
Decodes(frame) == {call.result : call \in Calls(frame)}

\* captureFrame after the await, a code was read: the if (result) branch
captureFound(value) ==
    /\ onResultCapture(value)
    /\ stopCamera
    /\ activeMode' = SetState(Null, activeMode)
    /\ UNCHANGED error

\* captureNotFound closing the session as the success branch does
captureNotFound_Stops ==
    /\ error' = SetState(NoCodeMsg, error)
    /\ stopCamera
    /\ activeMode' = SetState(Null, activeMode)
    /\ UNCHANGED <<decodedData, parsedData>>

\* captureFrame after the await, detectQRCode gave a falsy result
captureNotFound ==
    /\ error' = SetState(NoCodeMsg, error)
    /\ UNCHANGED <<activeMode, decodedData, parsedData, streamRef, videoSrc, stream>>

\* captureFrame after the await, detectQRCode threw
captureThrew ==
    /\ error' = SetState(ProcessMsg, error)
    /\ UNCHANGED <<activeMode, decodedData, parsedData, streamRef, videoSrc, stream>>

\* detectQRCode settles: captureFrame after the await
CaptureDone(i, result) ==
    /\ i \in 1..Len(captures)
    /\ result \in Decodes(captures[i])
    /\ captures' = Remove(captures, i)
    /\ IF result.kind = "throw" THEN captureThrew
       ELSE IF Truthy(result.value) THEN captureFound(result.value)
       ELSE captureNotFound
    /\ isProcessing' = SetState(FALSE, isProcessing)
    /\ UNCHANGED <<mounted, previewImage, uploads>>
    /\ \E call \in Calls(captures[i]) : call.result = result /\ detection' = call

\* closeMode that leaves the camera running
closeMode_NoStop ==
    /\ mounted
    /\ activeMode # Null
    /\ activeMode' = Null
    /\ resetState
    /\ UNCHANGED <<mounted, isProcessing, captures, uploads, stream, streamRef, videoSrc>>
    /\ detection' = NoCall

\* closeMode that also gives the buttons back
closeMode_ClearsProcessing ==
    /\ mounted
    /\ activeMode # Null
    /\ stopCamera
    /\ activeMode' = Null
    /\ resetState
    /\ isProcessing' = FALSE
    /\ UNCHANGED <<mounted, captures, uploads>>
    /\ detection' = NoCall

\* the X button, rendered while a mode is active
closeMode ==
    /\ mounted
    /\ activeMode # Null
    /\ stopCamera
    /\ activeMode' = Null
    /\ resetState
    /\ UNCHANGED <<mounted, isProcessing, captures, uploads>>
    /\ detection' = NoCall

\* uploadRejected with the validation placed after resetState
uploadRejected_Resets ==
    /\ error' = InvalidFileMsg
    /\ decodedData' = JsNull
    /\ previewImage' = Null
    /\ parsedData' = JsNull
    /\ UNCHANGED <<activeMode, isProcessing, videoSrc, uploads>>

\* handleFileUpload on a file whose type is no image type
uploadRejected ==
    /\ error' = InvalidFileMsg
    /\ UNCHANGED <<activeMode, decodedData, isProcessing, parsedData,
                   previewImage, videoSrc, uploads>>

\* handleFileUpload on an image file, up to readAsDataURL
uploadAccepted(file) ==
    /\ Len(uploads) < MaxInFlight
    /\ resetState
    /\ activeMode' = "upload"
    /\ isProcessing' = TRUE
    /\ uploads' = Append(uploads, [stage |-> "reading", url |-> DataURL(file)])
    /\ videoSrc' = 0

IsImageType(type) == StartsWith(type, <<"i", "m", "a", "g", "e", "/">>)

\* the file input's onChange, reached through the Upload Image button
\* (enabled unless isProcessing)
handleFileUpload(file) ==
    /\ mounted
    /\ ~isProcessing
    /\ IF ~IsImageType(file.type) THEN uploadRejected ELSE uploadAccepted(file)
    /\ UNCHANGED <<mounted, streamRef, stream, captures>>
    /\ detection' = NoCall

\* reader.onload: the image starts to load
ReaderLoaded(i) ==
    /\ i \in 1..Len(uploads)
    /\ uploads[i].stage = "reading"
    /\ uploads' = [uploads EXCEPT ![i].stage = "loading"]
    /\ UNCHANGED <<mounted, activeMode, decodedData, error, isProcessing, parsedData,
                   previewImage, streamRef, videoSrc, stream, captures>>
    /\ detection' = NoCall

\* the file cannot be read: no reader.onerror is installed
ReaderFailed(i) ==
    /\ i \in 1..Len(uploads)
    /\ uploads[i].stage = "reading"
    /\ uploads' = Remove(uploads, i)
    /\ UNCHANGED <<mounted, activeMode, decodedData, error, isProcessing, parsedData,
                   previewImage, streamRef, videoSrc, stream, captures>>
    /\ detection' = NoCall

\* img.onload up to the await: it returns early when there is no canvas
\* (after unmount) or no context; ctx is what getContext('2d') gives
ImageLoaded(i) ==
    /\ i \in 1..Len(uploads)
    /\ uploads[i].stage = "loading"
    /\ previewImage' = SetState(uploads[i].url, previewImage)
    /\ \E ctx \in BOOLEAN :
          uploads' = IF canvasRef /\ ctx
                     THEN [uploads EXCEPT ![i].stage = "decoding"]
                     ELSE Remove(uploads, i)
    /\ UNCHANGED <<mounted, activeMode, decodedData, error, isProcessing, parsedData,
                   streamRef, videoSrc, stream, captures>>
    /\ detection' = NoCall

\* the data is no image the browser can load: no img.onerror is installed
ImageFailed(i) ==
    /\ i \in 1..Len(uploads)
    /\ uploads[i].stage = "loading"
    /\ uploads' = Remove(uploads, i)
    /\ UNCHANGED <<mounted, activeMode, decodedData, error, isProcessing, parsedData,
                   previewImage, streamRef, videoSrc, stream, captures>>
    /\ detection' = NoCall

\* img.onload after the await, a code was read: the if (result) branch
uploadFound(value) ==
    /\ onResultCapture(value)
    /\ UNCHANGED error

\* img.onload after the await, detectQRCode gave a falsy result
uploadNotFound ==
    /\ error' = SetState(NoCodeUploadMsg, error)
    /\ UNCHANGED <<decodedData, parsedData>>

\* img.onload after the await, detectQRCode threw
uploadThrew ==
    /\ error' = SetState(ProcessUploadMsg, error)
    /\ UNCHANGED <<decodedData, parsedData>>

\* detectQRCode settles: img.onload after the await
UploadDecoded(i, result) ==
    /\ i \in 1..Len(uploads)
    /\ uploads[i].stage = "decoding"
    /\ result \in Decodes("picture")
    /\ uploads' = Remove(uploads, i)
    /\ IF result.kind = "throw" THEN uploadThrew
       ELSE IF Truthy(result.value) THEN uploadFound(result.value)
       ELSE uploadNotFound
    /\ isProcessing' = SetState(FALSE, isProcessing)
    /\ UNCHANGED <<mounted, activeMode, previewImage, streamRef, videoSrc, stream, captures>>
    /\ \E call \in Calls("picture") : call.result = result /\ detection' = call

\* the component is torn down: the cleanup of the effect runs stopCamera
Unmount ==
    /\ mounted
    /\ mounted' = FALSE
    /\ stopCamera
    /\ UNCHANGED <<activeMode, decodedData, error, isProcessing, parsedData,
                   previewImage, captures, uploads>>
    /\ detection' = NoCall

AllResults == Decodes("picture") \cup Decodes("empty")
Slots == 1..MaxInFlight

Next ==
    \/ startCamera
    \/ \E id \in StreamIds : CameraGranted(id)
    \/ \E id \in StreamIds : CameraDenied(id)
    \/ captureFrame
    \/ \E i \in Slots, result \in AllResults : CaptureDone(i, result)
    \/ closeMode
    \/ \E file \in Files : handleFileUpload(file)
    \/ \E i \in Slots : ReaderLoaded(i)
    \/ \E i \in Slots : ReaderFailed(i)
    \/ \E i \in Slots : ImageLoaded(i)
    \/ \E i \in Slots : ImageFailed(i)
    \/ \E i \in Slots, result \in AllResults : UploadDecoded(i, result)
    \/ Unmount

Spec == Init /\ [][Next]_vars

\* ----------------------------------------------------------------- claims
LiveStreams == {id \in StreamIds : stream[id] = "live"}

\* C1: a live camera stream exists only while activeMode is 'camera' and
\* the component is mounted.
C1_NoSessionOutlivesMode ==
    LiveStreams # {} => (activeMode = "camera" /\ mounted)

\* C2: two granted and unstopped streams never coexist.
C2_AtMostOneStream == Cardinality(LiveStreams) <= 1

Cleared ==
    /\ decodedData = JsNull
    /\ parsedData = JsNull
    /\ previewImage = Null
    /\ error = Null

\* C3 (as stated): whenever activeMode changes value, decodedData,
\* parsedData, previewImage and error are all null right after the change.
C3_ModeChangeClears == [][activeMode' # activeMode => Cleared']_vars

\* C3 (amended): whenever a user operation (startCamera, an accepted
\* handleFileUpload, closeMode) changes activeMode, the four are null right
\* after; the two completions that set activeMode to idle do not clear:
\* a successful capture leaves its result in decodedData, a denied camera
\* request leaves the permission message in error.
C3_UserModeChangeClears ==
    [][activeMode' # activeMode =>
          \/ (startCamera \/ closeMode \/ \E file \in Files : handleFileUpload(file))
                /\ Cleared'
          \/ (\E id \in StreamIds : CameraDenied(id)) /\ error' = CameraMsg
          \/ (\E i \in Slots, result \in AllResults : CaptureDone(i, result))
                /\ decodedData' # JsNull]_vars

\* C3 witness: upload mode was entered from camera mode by an accepted
\* handleFileUpload (the stream granted there is still live) and the four
\* are null.
C3_Witness ==
    /\ activeMode = "upload"
    /\ streamRef # 0
    /\ Cleared

\* a scan attempt has a step left that will run its finally block
ScanPending == captures # <<>> \/ uploads # <<>>

\* C4: every scan attempt that sets isProcessing sets it back to false:
\* while isProcessing is true, a step that resets it is still to come.
C4_ProcessingEnds == (mounted /\ isProcessing) => ScanPending

\* C5: when the decoder returns the string s for a captured frame or an
\* uploaded image, decodedData becomes exactly s; and decodedData, once
\* set, changes only by being reset to null.
C5_ExactPayload ==
    [][/\ \A result \in AllResults :
            ( /\ mounted
              /\ result.kind = "return"
              /\ result.value.t = "string"
              /\ \/ \E i \in Slots : CaptureDone(i, result)
                 \/ \E i \in Slots : UploadDecoded(i, result) )
            => decodedData' = result.value
       /\ (decodedData # JsNull /\ decodedData' # decodedData) => decodedData' = JsNull]_vars

\* C6: when captureFrame decodes a code, the camera is stopped (no stream
\* held, none live), the result is in decodedData, activeMode is idle and
\* isProcessing is false.
C6_CaptureSuccessStops ==
    [][\A result \in AllResults :
            ( /\ mounted
              /\ result.kind = "return"
              /\ result.value.t = "string"
              /\ \E i \in Slots : CaptureDone(i, result) )
            => /\ streamRef' = 0
               /\ LiveStreams' = {}
               /\ decodedData' = result.value
               /\ activeMode' = Null
               /\ ~isProcessing']_vars

\* the Scan QR Code button is there and enabled
CanCapture == videoRef /\ canvasRef /\ ~isProcessing

\* C7: when captureFrame finds no code in camera mode, the mode and the
\* streams stay as they are, the 'not found' message is set, decodedData
\* is null, isProcessing is false and captureFrame can be invoked again.
C7_NotFoundKeepsSession ==
    [][( /\ mounted
         /\ activeMode = "camera"
         /\ \E i \in Slots : CaptureDone(i, Return(JsNull)) )
       => /\ activeMode' = "camera"
          /\ UNCHANGED <<streamRef, stream, videoSrc>>
          /\ error' = NoCodeMsg
          /\ decodedData' = JsNull
          /\ ~isProcessing'
          /\ CanCapture']_vars

\* C7 witness: camera mode with a live stream shown, the 'not found'
\* message up and the Scan button enabled again.
C7_Witness ==
    /\ activeMode = "camera"
    /\ error = NoCodeMsg
    /\ streamRef # 0
    /\ stream[streamRef] = "live"
    /\ videoSrc = streamRef
    /\ CanCapture

\* C8: when the camera request is denied, error is set, activeMode is idle
\* and no camera stream is held.
C8_DenialReturnsToOff ==
    [][(mounted /\ \E id \in StreamIds : CameraDenied(id))
       => /\ error' = CameraMsg
          /\ activeMode' = Null
          /\ streamRef' = 0
          /\ LiveStreams' = {}]_vars

\* C9: handleFileUpload with a file whose type does not start with
\* 'image/' only sets the validation error: no read or decode is started,
\* isProcessing, activeMode, decodedData, parsedData, previewImage and the
\* camera stream stay as they are.
C9_RejectHasNoOtherEffect ==
    [][\A file \in Files :
            (handleFileUpload(file) /\ ~IsImageType(file.type))
            => /\ error' = InvalidFileMsg
               /\ UNCHANGED <<activeMode, decodedData, parsedData, previewImage,
                              isProcessing, streamRef, videoSrc, stream,
                              captures, uploads, mounted>>]_vars

\* C9 witness: a file was rejected while a result, its preview and upload
\* mode were up, and they still are.
C9_Witness ==
    /\ error = InvalidFileMsg
    /\ activeMode = "upload"
    /\ decodedData # JsNull
    /\ previewImage # Null

\* the fields of ItemData and their types
ItemFields ==
    << <<<<"i", "t", "e", "m", "I", "d">>, "number">>,
       <<<<"i", "t", "e", "m", "C", "o", "d", "e">>, "string">>,
       <<<<"i", "t", "e", "m", "C", "o", "d", "e", "F", "o", "r", "m", "a", "t">>, "string">>,
       <<<<"r", "e", "c", "e", "i", "v", "e", "d", "Q", "u", "a", "n", "t", "i", "t", "y">>, "number">>,
       <<<<"l", "o", "c", "a", "t", "i", "o", "n">>, "string">>,
       <<<<"p", "e", "r", "i", "o", "d">>, "string">>,
       <<<<"u", "o", "m">>, "string">>,
       <<<<"p", "l", "a", "c", "e", "m", "e", "n", "t">>, "string">> >>

\* v is an object with every field of ItemData, each of its type
IsItemData(v) ==
    /\ v.t = "object"
    /\ \A f \in 1..Len(ItemFields) :
          \E k \in 1..Len(v.keys) :
              /\ v.keys[k] = ItemFields[f][1]
              /\ v.kids[k].t = ItemFields[f][2]

\* the text percent-decodes and JSON-parses to an item record
ParsesToItem(text) ==
    LET decodedString == decodeURIComponent(text)
    IN  /\ decodedString.kind = "return"
        /\ JSONparse(decodedString.value.s).kind = "return"
        /\ IsItemData(JSONparse(decodedString.value.s).value)

\* C10: after a successful scan parsedData is non-null if and only if the
\* decoded text percent-decodes and JSON-parses to an item record.
C10_ParsedIffItem ==
    decodedData # JsNull => (parsedData # JsNull <=> ParsesToItem(decodedData.s))

\* the text does not percent-decode, or what it decodes to is no JSON
InterpretationFails(text) ==
    LET decodedString == decodeURIComponent(text)
    IN  \/ decodedString.kind = "throw"
        \/ JSONparse(decodedString.value.s).kind = "throw"

\* the payloads onResultCapture cannot interpret
FailingTexts == {text \in Payloads : InterpretationFails(text)}

\* C11: when onResultCapture gets a text that fails percent-decoding or
\* JSON parsing, parsedData is null, decodedData holds the raw text, error
\* is left as it was, and the scan ends as a success (isProcessing false).
C11_InterpretationNonFatal ==
    [][( /\ mounted
         /\ detection'.made
         /\ detection'.result.kind = "return"
         /\ Truthy(detection'.result.value)
         /\ detection'.result.value.s \in FailingTexts )
       => /\ parsedData' = JsNull
          /\ decodedData' = detection'.result.value
          /\ error' = error
          /\ ~isProcessing']_vars

\* C11 witness: a scan of the payload "%" ended with the raw text shown,
\* no parsed record and no message.
C11_Witness ==
    /\ mounted
    /\ decodedData = JsStr(PayloadPercent)
    /\ parsedData = JsNull
    /\ error = Null
    /\ ~isProcessing

\* C12: at most one decode attempt is under way at any time, and while one
\* is, isProcessing is true (so that Scan, Start Camera and Upload Image
\* are disabled).
C12_OneDecodeInFlight ==
    /\ Len(captures) + Len(uploads) <= 1
    /\ (mounted /\ ScanPending) => isProcessing

\* C12 witness: the mode was left while a capture was being decoded; the
\* decode is still pending and the buttons are still disabled.
C12_Witness ==
    /\ mounted
    /\ activeMode = Null
    /\ isProcessing
    /\ Len(captures) = 1

\* the uploaded image's preview is rendered
PreviewVisible == activeMode = "upload" /\ previewImage # Null

\* C13: once shown, the preview of the uploaded image stays visible until
\* closeMode, startCamera or another accepted upload; no other event
\* removes it.
C13_PreviewStays ==
    [][(PreviewVisible /\ ~PreviewVisible')
       => (closeMode \/ startCamera \/ \E file \in Files : handleFileUpload(file))]_vars

\* a step that runs stopCamera: the X button, the unmount cleanup, or a
\* capture that found a code
StopsCamera ==
    \/ closeMode
    \/ Unmount
    \/ /\ detection'.made
       /\ detection'.result.kind = "return"
       /\ Truthy(detection'.result.value)
       /\ \E i \in Slots : CaptureDone(i, detection'.result)

\* C14: stopCamera can run in every state (the unmount cleanup is enabled
\* whenever the page is mounted); after it no stream is held, the video
\* element plays nothing and the stream that was held is no longer live;
\* run with no stream held and nothing playing it changes nothing.
C14_StopCameraIdempotent ==
    [][ /\ mounted => ENABLED Unmount
        /\ StopsCamera
           => /\ streamRef' = 0
              /\ videoSrc' = 0
              /\ stream' = [id \in StreamIds |->
                               IF id = streamRef THEN "none" ELSE stream[id]]
        /\ (StopsCamera /\ streamRef = 0 /\ videoSrc = 0)
           => UNCHANGED <<stream, streamRef, videoSrc>> ]_vars

\* C14 witness: the page was unmounted in camera mode after a capture that
\* found no code; no stream is held and none is live.
C14_Witness ==
    /\ ~mounted
    /\ activeMode = "camera"
    /\ error = NoCodeMsg
    /\ streamRef = 0
    /\ videoSrc = 0
    /\ \A id \in StreamIds : stream[id] = "none"

\* C15: when the native detector throws, detectQRCode gives its caller what
\* the bundled decoder gives on the same pixels.
C15_FallbackOnThrow ==
    (detection.made /\ detection.hasDetector /\ detection.native = Throw)
    => detection.result = detection.bundled

\* C15 witness: the native detector threw, the bundled decoder read the
\* item payload, and that payload is the result shown.
C15_Witness ==
    /\ detection.made
    /\ detection.hasDetector
    /\ detection.native = Throw
    /\ detection.bundled = Return(JsStr(PayloadItem))
    /\ decodedData = JsStr(PayloadItem)

\* C16: detectQRCode reports not-found only if the bundled decoder finds no
\* code: with no native detector, or one that throws or detects nothing,
\* the result is the bundled decoder's.
C16_UnconditionalFallback ==
    ( /\ detection.made
      /\ \/ ~detection.hasDetector
         \/ detection.native = Throw
         \/ detection.native = Return(JsNull) )
    => detection.result = detection.bundled

\* the state closeMode leaves: idle, no stream held, nothing playing, and
\* no result, parsed record, preview or message
ClosedState ==
    /\ activeMode = Null
    /\ streamRef = 0
    /\ videoSrc = 0
    /\ Cleared

\* C17: closeMode yields the closed state, stops the stream that was held
\* and touches nothing else; run on a state that is already clear with no
\* stream held, it changes nothing but activeMode.
C17_CloseModeIdempotent ==
    [][closeMode
       => /\ ClosedState'
          /\ stream' = [id \in StreamIds |->
                           IF id = streamRef THEN "none" ELSE stream[id]]
          /\ UNCHANGED <<mounted, isProcessing, captures, uploads>>
          /\ (streamRef = 0 /\ videoSrc = 0 /\ Cleared)
             => UNCHANGED <<stream, streamRef, videoSrc, decodedData, error,
                            parsedData, previewImage>> ]_vars

\* C17 witness: the closed state, with a camera request still unanswered.
C17_Witness ==
    /\ mounted
    /\ ClosedState
    /\ \E id \in StreamIds : stream[id] = "pending"

\* a step the user takes: a button, a file chosen, or leaving the page
UserStep ==
    \/ startCamera
    \/ captureFrame
    \/ closeMode
    \/ Unmount
    \/ \E file \in Files : handleFileUpload(file)

\* C18: a completion of an abandoned request has no visible effect: while
\* the page is idle with nothing shown, only a step of the user changes
\* that; and a camera grant or denial arriving in upload mode changes
\* neither activeMode nor error.
C18_StaleCompletionInert ==
    [][ /\ (mounted /\ activeMode = Null /\ Cleared /\ ~UserStep)
           => (activeMode' = Null /\ Cleared')
        /\ \A id \in StreamIds :
               (mounted /\ activeMode = "upload"
                   /\ (CameraGranted(id) \/ CameraDenied(id)))
               => UNCHANGED <<activeMode, error>> ]_vars

\* C19: error and decodedData are never both non-null.
C19_ErrorXorResult == ~(error # Null /\ decodedData # JsNull)

\* C20: a parsed record is never held without the raw text it came from.
C20_ParsedHasRaw == parsedData # JsNull => decodedData # JsNull

\* C20 witness: the item payload is shown together with its parsed record.
C20_Witness ==
    /\ IsItemData(parsedData)
    /\ decodedData = JsStr(PayloadItem)

====
